---- MODULE Spec2Model ----
(***************************************************************************)
(* htmlfill.FillingParser (src/htmlfill.py): the streaming rewrite engine   *)
(* that fills form controls with defaults and places validation errors;    *)
(* and schema.Schema (src/schema.py): the validation of a dict, field by   *)
(* field.                                                                  *)
(*                                                                         *)
(* Python values are records tagged with their type (field t).  A Python   *)
(* str is [t |-> "str", s |-> <<...>>] where s is the sequence of its       *)
(* characters; a character is a TLA+ string (an atom of text: markup       *)
(* punctuation such as "<input" counts as one character, so that columns   *)
(* and slices are computed on sequences exactly as the code computes them  *)
(* on strings).                                                            *)
(***************************************************************************)
EXTENDS Integers, Sequences, FiniteSets, TLC

VARIABLES
    defaults,               \* self.defaults   (htmlfill.py:84)
    errors,                 \* self.errors     (htmlfill.py:88-90)
    use_all_keys,           \* self.use_all_keys (htmlfill.py:93)
    auto_error_formatter,   \* self.auto_error_formatter (htmlfill.py:105)
    parser,                 \* the mutable fields of the FillingParser instance
    doc,                    \* the tokenizer events delivered so far
    source,                 \* self.source: the text of the events delivered
    getpos,                 \* HTMLParser.getpos(): where the next event starts
    pc,                     \* "feeding" | "closed" | "failed"
    schema                  \* a run of Schema._to_python (schema.py:98-180)

vars == <<defaults, errors, use_all_keys, auto_error_formatter,
          parser, doc, source, getpos, pc, schema>>

----------------------------------------------------------------------------
(* Python values *)

None == [t |-> "None"]

PyStr(s) == [t |-> "str", s |-> s]

PyInt(i) == [t |-> "int", i |-> i]

PyList(l) == [t |-> "list", l |-> l]

PyDict(d) == [t |-> "dict", d |-> d]

\* htmlliteral(html, text): both renderings given (htmlfill.py:5-24)
htmlliteral(html, text) == [t |-> "htmlliteral", html |-> html, text |-> text]

\* bool(v)
truth(v) ==
    CASE v.t = "None" -> FALSE
      [] v.t = "str"  -> v.s # <<>>
      [] v.t = "int"  -> v.i # 0
      [] v.t = "list" -> v.l # <<>>
      [] v.t = "dict" -> DOMAIN v.d # {}
      [] OTHER        -> TRUE

RECURSIVE Concat(_)
\* ''.join(seqs) on character sequences
Concat(seqs) ==
    IF seqs = <<>> THEN <<>> ELSE Head(seqs) \o Concat(Tail(seqs))

Digits == <<"0", "1", "2", "3", "4", "5", "6", "7", "8", "9">>

\* repr(v) of a list element
repr(v) ==
    CASE v.t = "str" -> <<"'">> \o v.s \o <<"'">>
      [] v.t = "int" -> <<Digits[v.i + 1]>>
      [] OTHER       -> <<"None">>

RECURSIVE ReprItems(_)
ReprItems(l) ==
    IF l = <<>> THEN <<>>
    ELSE IF Len(l) = 1 THEN repr(l[1])
    ELSE repr(l[1]) \o <<", ">> \o ReprItems(Tail(l))

\* str(v): the characters of the natural string form
str(v) ==
    CASE v.t = "None"        -> <<"None">>
      [] v.t = "str"         -> v.s
      [] v.t = "int"         -> <<Digits[v.i + 1]>>
      [] v.t = "list"        -> <<"[">> \o ReprItems(v.l) \o <<"]">>
      [] v.t = "htmlliteral" -> v.text
      [] OTHER               -> <<"?">>

\* cgi.escape(s, 1) on one character
escape_char(c) ==
    CASE c = "&"  -> "&amp;"
      [] c = "<"  -> "&lt;"
      [] c = ">"  -> "&gt;"
      [] c = "\"" -> "&quot;"
      [] OTHER    -> c

\* cgi.escape(s, 1)
cgi_escape(s) == [i \in DOMAIN s |-> escape_char(s[i])]

\* html_quote(v) (htmlfill.py:26-32); the result is the characters of a str
html_quote(v) ==
    IF v.t = "None" THEN <<>>
    ELSE IF v.t = "htmlliteral" THEN v.html
    ELSE cgi_escape(str(v))

----------------------------------------------------------------------------
(* Error formatters.  A call either returns a value or raises. *)

Returned(v) == [exc |-> "", v |-> v]

Raised(e) == [exc |-> e, v |-> None]

\* default_formatter (htmlfill.py:34-35)
default_formatter(error) ==
    Returned(PyStr(<<"<span class=\"error-message\">">> \o html_quote(error)
                   \o <<"</span><br />", "\n">>))

\* none_formatter (htmlfill.py:37-38)
none_formatter(error) == Returned(error)

\* escape_formatter (htmlfill.py:40-41): calls html_quote(error, 1), and
\* html_quote takes exactly one argument, so the call raises TypeError.
escape_formatter(error) == Raised("TypeError")

\* self.error_formatters[formatter](error) (htmlfill.py:216) with the
\* registry __init__ builds when error_formatters is None (htmlfill.py:96-99);
\* formatter is a str
call_formatter(formatter, error) ==
    CASE formatter = PyStr(<<"default">>) -> default_formatter(error)
      [] formatter = PyStr(<<"none">>)    -> none_formatter(error)
      [] formatter = PyStr(<<"escape">>)  -> escape_formatter(error)
      [] OTHER                            -> Raised("KeyError")

\* self.auto_error_formatter(value) (htmlfill.py:126); the configured
\* callable is named by a string
call_auto(f, value) ==
    CASE f = "default_formatter" -> default_formatter(value)
      [] f = "none_formatter"    -> none_formatter(value)
      [] OTHER                   -> escape_formatter(value)

\* self.error_class (htmlfill.py:76, 102): the constructor's default
error_class == PyStr(<<"error">>)

----------------------------------------------------------------------------
(* dict.get *)

dict_get(d, key, default) == IF key \in DOMAIN d THEN d[key] ELSE default

----------------------------------------------------------------------------
(* Attribute lists: sequences of [n |-> name, v |-> value] *)

\* n.lower() on the names and type words the documents use
lower(c) ==
    CASE c = "TEXT"     -> "text"
      [] c = "RADIO"    -> "radio"
      [] c = "CHECKBOX" -> "checkbox"
      [] OTHER          -> c

lower_str(s) == [i \in DOMAIN s |-> lower(s[i])]

RECURSIVE get_attr(_, _, _)
\* get_attr (htmlfill.py:377-381)
get_attr(attr, name, default) ==
    IF attr = <<>> THEN default
    ELSE IF lower(Head(attr).n) = name THEN Head(attr).v
    ELSE get_attr(Tail(attr), name, default)

\* the index of the first attribute named name, 0 when there is none
first_attr(attr, name) ==
    IF \E i \in DOMAIN attr : lower(attr[i].n) = name
    THEN CHOOSE i \in DOMAIN attr :
            /\ lower(attr[i].n) = name
            /\ \A j \in 1..(i - 1) : lower(attr[j].n) # name
    ELSE 0

\* set_attr (htmlfill.py:383-388)
set_attr(attr, name, value) ==
    LET i == first_attr(attr, name)
    IN  IF i = 0 THEN Append(attr, [n |-> name, v |-> value])
        ELSE [attr EXCEPT ![i] = [n |-> name, v |-> value]]

\* del_attr (htmlfill.py:390-394)
del_attr(attr, name) ==
    LET i == first_attr(attr, name)
    IN  IF i = 0 THEN attr
        ELSE SubSeq(attr, 1, i - 1) \o SubSeq(attr, i + 1, Len(attr))

RECURSIVE lstrip(_)
lstrip(s) == IF s # <<>> /\ Head(s) = " " THEN lstrip(Tail(s)) ELSE s

RECURSIVE rstrip(_)
rstrip(s) ==
    IF s # <<>> /\ s[Len(s)] = " " THEN rstrip(SubSeq(s, 1, Len(s) - 1)) ELSE s

\* str.strip()
strip(s) == rstrip(lstrip(s))

\* add_class (htmlfill.py:396-399)
add_class(attr, class_name) ==
    LET current == get_attr(attr, "class", PyStr(<<>>))
        new == current.s \o <<" ">> \o class_name.s
    IN  set_attr(attr, "class", PyStr(strip(new)))

----------------------------------------------------------------------------
(* The Content/Marker buffer: self._content holds str chunks and markers,  *)
(* a marker being the 1-tuple (key,) (htmlfill.py:331-345).                *)

Marker(key) == [t |-> "marker", key |-> key]

\* write_text (htmlfill.py:331-332)
write_text(self, text) == [self EXCEPT !.content = Append(@, text)]

\* write_marker (htmlfill.py:334-335)
write_marker(self, marker) == [self EXCEPT !.content = Append(@, Marker(marker))]

\* the index of the first item equal to (marker,), 0 when there is none
first_marker(content, marker) ==
    IF \E i \in DOMAIN content : content[i] = Marker(marker)
    THEN CHOOSE i \in DOMAIN content :
            /\ content[i] = Marker(marker)
            /\ \A j \in 1..(i - 1) : content[j] # Marker(marker)
    ELSE 0

\* list.insert(i, text) with i the 0-based index of the item now at i + 1
list_insert(content, i, text) ==
    SubSeq(content, 1, i) \o <<text>> \o SubSeq(content, i + 1, Len(content))

\* insert_at_marker with the text put after the marker instead of before it
insert_after_marker(self, marker, text) ==
    LET i == first_marker(self.content, marker)
    IN  IF i = 0 THEN [self EXCEPT !.exc = "ValueError"]
        ELSE [self EXCEPT !.content = list_insert(@, i, text)]

\* insert_at_marker with the text put in the place of the marker, which the
\* insertion consumes
insert_replacing_marker(self, marker, text) ==
    LET i == first_marker(self.content, marker)
    IN  IF i = 0 THEN [self EXCEPT !.exc = "ValueError"]
        ELSE [self EXCEPT !.content = [@ EXCEPT ![i] = text]]

\* insert_at_marker (htmlfill.py:337-345); ValueError when no item matches
insert_at_marker(self, marker, text) ==
    LET i == first_marker(self.content, marker)
    IN  IF i = 0 THEN [self EXCEPT !.exc = "ValueError"]
        ELSE [self EXCEPT !.content = list_insert(@, i - 1, text)]

\* the filter of write_tag (htmlfill.py:350): n.startswith('form:')
startswith_form(n) == n \in {"form:field", "form:x"}

RECURSIVE attr_text(_)
\* the attribute text of write_tag (htmlfill.py:348-350)
attr_text(attrs) ==
    IF attrs = <<>> THEN <<>>
    ELSE (IF startswith_form(Head(attrs).n) THEN <<>>
          ELSE <<" " \o Head(attrs).n \o "=\"">> \o html_quote(Head(attrs).v)
               \o <<"\"">>)
         \o attr_text(Tail(attrs))

\* the str that write_tag formats (htmlfill.py:347-353)
tag_text(tag, attrs, startend) ==
    <<"<" \o tag>> \o attr_text(attrs)
        \o (IF startend THEN <<" /">> ELSE <<>>) \o <<">">>

\* write_tag (htmlfill.py:347-353)
write_tag(self, tag, attrs, startend) ==
    write_text(self, PyStr(tag_text(tag, attrs, startend)))

\* add_key (htmlfill.py:146-147); used_keys is the key set of the dict
add_key(self, key) == [self EXCEPT !.used_keys = @ \cup {key}]

----------------------------------------------------------------------------
(* The Source Reconstructor *)

\* s[a:b] of Python, on a character sequence (0-based, end exclusive, clamped)
Slice(s, a, b) ==
    LET hi == IF b < Len(s) THEN b ELSE Len(s)
    IN  IF a >= hi THEN <<>> ELSE SubSeq(s, a + 1, hi)

RECURSIVE split_lines(_)
\* data.split('\n') (htmlfill.py:109)
split_lines(data) ==
    IF \E i \in DOMAIN data : data[i] = "\n"
    THEN LET i == CHOOSE k \in DOMAIN data :
                    data[k] = "\n" /\ \A j \in 1..(k - 1) : data[j] # "\n"
         IN  <<SubSeq(data, 1, i - 1)>> \o split_lines(SubSeq(data, i + 1, Len(data)))
    ELSE <<data>>

RECURSIVE write_all(_, _)
\* successive write_text calls
write_all(self, chunks) ==
    IF chunks = <<>> THEN self
    ELSE write_all(write_text(self, PyStr(Head(chunks))), Tail(chunks))

\* the lines strictly between the cursor's line and the event's line, each
\* followed by a newline (htmlfill.py:371-373)
between_lines(lines, from, to) ==
    Concat([i \in 1..(to - from - 1) |-> <<lines[from + i], <<"\n">>>>])

\* write_pos that honours skip_next without clearing it
write_pos_sticky(self, pos, lines) ==
    LET cur_line == pos[1]
        cur_offset == pos[2]
        sp == self.source_pos
    IN  IF self.in_textarea \/ self.skip_error \/ self.skip_next
        THEN [self EXCEPT !.source_pos = pos]
        ELSE IF cur_line = sp[1]
        THEN [write_text(self, PyStr(Slice(lines[cur_line], sp[2], cur_offset)))
                EXCEPT !.source_pos = pos]
        ELSE [write_all(self,
                  <<Slice(lines[sp[1]], sp[2], Len(lines[sp[1]])), <<"\n">>>>
                  \o between_lines(lines, sp[1], cur_line)
                  \o <<Slice(lines[cur_line], 0, cur_offset)>>)
                EXCEPT !.source_pos = pos]

\* write_pos (htmlfill.py:355-375); pos is self.getpos() = <<line, offset>>,
\* lines is self.lines
write_pos(self, pos, lines) ==
    LET cur_line == pos[1]
        cur_offset == pos[2]
        sp == self.source_pos
    IN  IF self.in_textarea \/ self.skip_error
        THEN [self EXCEPT !.source_pos = pos]
        ELSE IF self.skip_next
        THEN [self EXCEPT !.skip_next = FALSE, !.source_pos = pos]
        ELSE IF cur_line = sp[1]
        THEN [write_text(self, PyStr(Slice(lines[cur_line], sp[2], cur_offset)))
                EXCEPT !.source_pos = pos]
        ELSE [write_all(self,
                  <<Slice(lines[sp[1]], sp[2], Len(lines[sp[1]])), <<"\n">>>>
                  \o between_lines(lines, sp[1], cur_line)
                  \o <<Slice(lines[cur_line], 0, cur_offset)>>)
                EXCEPT !.source_pos = pos]

----------------------------------------------------------------------------
(* The Control Handlers.  Each takes the parser record after write_pos and *)
(* returns it as the handler leaves it; a raised exception is recorded in  *)
(* exc with the mutations made before the raise kept.                      *)

\* a or b of Python
py_or(a, b) == IF truth(a) THEN a ELSE b

\* handle_iferror (htmlfill.py:193-199)
handle_iferror(self, attrs) ==
    LET name == get_attr(attrs, "name", None)
    IN  IF ~truth(name) THEN [self EXCEPT !.exc = "AssertionError"]
        ELSE [self EXCEPT
                !.in_error = name,
                !.skip_error = IF ~truth(dict_get(errors, name, None))
                               THEN TRUE ELSE @,
                !.skip_next = TRUE]

\* handle_end_iferror (htmlfill.py:201-204)
handle_end_iferror(self) ==
    [self EXCEPT !.in_error = None, !.skip_error = FALSE, !.skip_next = TRUE]

\* handle_error (htmlfill.py:206-219)
handle_error(self, attrs) ==
    LET attr_name == get_attr(attrs, "name", None)
        formatter == py_or(get_attr(attrs, "format", None), PyStr(<<"default">>))
        name == IF attr_name = None THEN self.in_error ELSE attr_name
        error == dict_get(errors, name, PyStr(<<>>))
        formatted == call_formatter(formatter, error)
        done(s) == [s EXCEPT !.skip_next = TRUE, !.used_errors = @ \cup {name}]
    IN  IF name = None THEN [self EXCEPT !.exc = "AssertionError"]
        ELSE IF truth(error)
        THEN IF formatted.exc # "" THEN [self EXCEPT !.exc = formatted.exc]
             ELSE done(write_text(self, formatted.v))
        ELSE done(self)

\* the class added to an erroring control (htmlfill.py:235-237, 292-294,
\* 309-311)
with_error_class(attrs, name) ==
    IF truth(error_class) /\ truth(dict_get(errors, name, None))
    THEN add_class(attrs, error_class)
    ELSE attrs

\* the tail shared by the rewriting branches of handle_input: write_tag,
\* skip_next = True, add_key (htmlfill.py:242-244, 254-256, 262-264, 270-272,
\* 276-278, 282-284)
emit_input(self, attrs, startend, name) ==
    add_key([write_tag(self, "input", attrs, startend) EXCEPT !.skip_next = TRUE],
            name)

\* the checkbox test without its list/tuple clause
checkbox_checked_scalar(attrs, value) ==
    \/ PyStr(str(value)) = get_attr(attrs, "value", None)
    \/ (get_attr(attrs, "value", None) = None /\ truth(value))

\* the checkbox test (htmlfill.py:246-250)
checkbox_checked(attrs, value) ==
    \/ PyStr(str(value)) = get_attr(attrs, "value", None)
    \/ (get_attr(attrs, "value", None) = None /\ truth(value))
    \/ (value.t = "list"
        /\ \E i \in DOMAIN value.l :
              PyStr(str(value.l[i])) = get_attr(attrs, "value", None))

\* the radio test that leaves a checked attribute of the source in place
radio_checked_sticky(attrs, value) ==
    \/ PyStr(str(value)) = get_attr(attrs, "value", None)
    \/ first_attr(attrs, "checked") # 0

\* the radio test (htmlfill.py:258)
radio_checked(attrs, value) ==
    PyStr(str(value)) = get_attr(attrs, "value", None)

\* handle_input that lets an input of any type pass through, as it does one
\* of type file
handle_input_lenient(self, attrs0, startend) ==
    write_marker(self, get_attr(attrs0, "name", None))

\* handle_input (htmlfill.py:221-287); add_attributes is the constructor's
\* default {} (htmlfill.py:103), so the loop of lines 226-234 has no rule
handle_input(self, attrs0, startend) ==
    LET t == lower_str(py_or(get_attr(attrs0, "type", None), PyStr(<<"text">>)).s)
        name == get_attr(attrs0, "name", None)
        s1 == write_marker(self, name)
        value == dict_get(defaults, name, None)
        attrs == with_error_class(attrs0, get_attr(attrs0, "name", None))
    IN  CASE t \in {<<"text">>, <<"hidden">>} ->
               emit_input(s1,
                   set_attr(attrs, "value",
                       IF value = None THEN get_attr(attrs, "value", PyStr(<<>>))
                       ELSE value),
                   startend, name)
          [] t = <<"checkbox">> ->
               emit_input(s1,
                   IF checkbox_checked(attrs, value)
                   THEN set_attr(attrs, "checked", PyStr(<<"checked">>))
                   ELSE del_attr(attrs, "checked"),
                   startend, name)
          [] t = <<"radio">> ->
               emit_input(s1,
                   IF radio_checked(attrs, value)
                   THEN set_attr(attrs, "checked", PyStr(<<"checked">>))
                   ELSE del_attr(attrs, "checked"),
                   startend, name)
          [] t = <<"file">> -> s1
          [] t = <<"password">> ->
               emit_input(s1,
                   set_attr(attrs, "value",
                       py_or(value, get_attr(attrs, "value", PyStr(<<>>)))),
                   startend, name)
          [] t = <<"image">> ->
               emit_input(s1,
                   set_attr(attrs, "src",
                       py_or(value, get_attr(attrs, "src", PyStr(<<>>)))),
                   startend, name)
          [] t \in {<<"submit">>, <<"reset">>, <<"button">>} ->
               emit_input(s1,
                   set_attr(attrs, "value",
                       py_or(value, get_attr(attrs, "value", PyStr(<<>>)))),
                   startend, name)
          [] OTHER -> [s1 EXCEPT !.exc = "AssertionError"]

\* handle_textarea (htmlfill.py:289-300)
handle_textarea(self, attrs0) ==
    LET name == get_attr(attrs0, "name", None)
        s1 == write_marker(self, name)
        attrs == with_error_class(attrs0, name)
        s2 == write_tag(s1, "textarea", attrs, FALSE)
        value == dict_get(defaults, name, PyStr(<<>>))
        s3 == write_text(s2, PyStr(html_quote(value)))
        s4 == write_text(s3, PyStr(<<"</textarea>">>))
    IN  add_key([s4 EXCEPT !.in_textarea = TRUE], name)

\* handle_end_textarea (htmlfill.py:302-304)
handle_end_textarea(self) ==
    [self EXCEPT !.in_textarea = FALSE, !.skip_next = TRUE]

\* handle_select (htmlfill.py:306-315)
handle_select(self, attrs0) ==
    LET name == get_attr(attrs0, "name", None)
        s1 == write_marker(self, name)
        attrs == with_error_class(attrs0, name)
        s2 == [s1 EXCEPT !.in_select = get_attr(attrs, "name", None)]
        s3 == write_tag(s2, "select", attrs, FALSE)
    IN  add_key([s3 EXCEPT !.skip_next = TRUE], s3.in_select)

\* handle_end_select that leaves the field of the closed select in place
handle_end_select_stale(self) == self

\* handle_end_select (htmlfill.py:317-318)
handle_end_select(self) == [self EXCEPT !.in_select = None]

\* the option test (htmlfill.py:322-323)
option_selected(self, attrs) ==
    PyStr(str(dict_get(defaults, self.in_select, PyStr(<<>>))))
        = get_attr(attrs, "value", None)

\* handle_option (htmlfill.py:320-329)
handle_option(self, attrs) ==
    IF ~truth(self.in_select) THEN [self EXCEPT !.exc = "AssertionError"]
    ELSE LET s1 == IF option_selected(self, attrs)
                   THEN add_key(self, self.in_select) ELSE self
             attrs1 == IF option_selected(self, attrs)
                       THEN set_attr(attrs, "selected", PyStr(<<"selected">>))
                       ELSE del_attr(attrs, "selected")
         IN  [write_tag(s1, "option", attrs1, FALSE) EXCEPT !.skip_next = TRUE]

\* handle_starttag (htmlfill.py:149-169) and handle_startendtag
\* (htmlfill.py:190-191); listener is the constructor's default None
handle_starttag(self, tag, attrs, startend, pos, lines) ==
    LET s1 == write_pos(self, pos, lines)
    IN  CASE tag = "input"        -> handle_input(s1, attrs, startend)
          [] tag = "textarea"     -> handle_textarea(s1, attrs)
          [] tag = "select"       -> handle_select(s1, attrs)
          [] tag = "option"       -> handle_option(s1, attrs)
          [] tag = "form:error"   -> handle_error(s1, attrs)
          [] tag = "form:iferror" -> handle_iferror(s1, attrs)
          [] OTHER                -> s1

\* handle_misc (htmlfill.py:171-179)
handle_misc(self, pos, lines) == write_pos(self, pos, lines)

\* handle_endtag (htmlfill.py:181-188)
handle_endtag(self, tag, pos, lines) ==
    LET s1 == write_pos(self, pos, lines)
    IN  CASE tag = "textarea"     -> handle_end_textarea(s1)
          [] tag = "select"       -> handle_end_select(s1)
          [] tag = "form:iferror" -> handle_end_iferror(s1)
          [] OTHER                -> s1

----------------------------------------------------------------------------
(* The Finalizer *)

Unset == [t |-> "unset"]

RECURSIVE insert_all(_, _)
\* the loop of close (htmlfill.py:123-126) over the unused errors in the
\* order keys, which is the iteration order of the dict
insert_all(self, keys) ==
    IF keys = <<>> \/ self.exc # "" THEN self
    ELSE LET formatted == call_auto(auto_error_formatter, errors[Head(keys)])
         IN  IF formatted.exc # "" THEN [self EXCEPT !.exc = formatted.exc]
             ELSE insert_all(insert_at_marker(self, Head(keys), formatted.v),
                             Tail(keys))

\* ''.join([t for t in self._content if not isinstance(t, tuple)])
\* (htmlfill.py:143-144)
join_content(content) ==
    Concat([i \in DOMAIN content |->
               IF content[i].t = "str" THEN content[i].s ELSE <<>>])

\* close without the check of the unused defaults (htmlfill.py:129-135)
close_unchecked_defaults(self, keys) ==
    LET s1 == IF auto_error_formatter # "None" THEN insert_all(self, keys)
              ELSE self
        unused_errors == IF auto_error_formatter # "None" THEN {}
                         ELSE DOMAIN errors \ self.used_errors
    IN  IF s1.exc # "" THEN s1
        ELSE IF use_all_keys /\ unused_errors # {}
        THEN [s1 EXCEPT !.exc = "AssertionError"]
        ELSE [s1 EXCEPT !.text = PyStr(join_content(s1.content))]

\* close that joins the buffer into the result text before its checks
close_text_first(self, keys) ==
    LET s1 == IF auto_error_formatter # "None" THEN insert_all(self, keys)
              ELSE self
        unused_errors == IF auto_error_formatter # "None" THEN {}
                         ELSE DOMAIN errors \ self.used_errors
        unused == DOMAIN defaults \ self.used_keys
        s2 == [s1 EXCEPT !.text = PyStr(join_content(s1.content))]
    IN  IF s1.exc # "" THEN s2
        ELSE IF use_all_keys /\ (unused # {} \/ unused_errors # {})
        THEN [s2 EXCEPT !.exc = "AssertionError"]
        ELSE s2

\* close (htmlfill.py:115-144) after HTMLParser.close; keys is the order in
\* which unused_errors.items() yields the unused errors
close(self, keys) ==
    LET s1 == IF auto_error_formatter # "None" THEN insert_all(self, keys)
              ELSE self
        unused_errors == IF auto_error_formatter # "None" THEN {}
                         ELSE DOMAIN errors \ self.used_errors
        unused == DOMAIN defaults \ self.used_keys
    IN  IF s1.exc # "" THEN s1
        ELSE IF use_all_keys /\ unused # {}
        THEN [s1 EXCEPT !.exc = "AssertionError"]
        ELSE IF use_all_keys /\ unused_errors # {}
        THEN [s1 EXCEPT !.exc = "AssertionError"]
        ELSE IF \E i \in DOMAIN s1.content :
                    s1.content[i].t \notin {"str", "marker"}
        THEN [s1 EXCEPT !.exc = "TypeError"]
        ELSE [s1 EXCEPT !.text = PyStr(join_content(s1.content))]

\* the orders in which a dict may yield the keys of the set S
Orders(S) ==
    {f \in [1..Cardinality(S) -> S] : \A i, j \in DOMAIN f : i # j => f[i] # f[j]}

----------------------------------------------------------------------------
(* The tokenizer (HTMLParser) and the events it delivers *)

Start(tag, attrs) == [kind |-> "start", tag |-> tag, attrs |-> attrs, data |-> <<>>]

StartEnd(tag, attrs) ==
    [kind |-> "startend", tag |-> tag, attrs |-> attrs, data |-> <<>>]

End(tag) == [kind |-> "end", tag |-> tag, attrs |-> <<>>, data |-> <<>>]

\* text, a comment, an entity or character reference, a declaration
Misc(data) == [kind |-> "misc", tag |-> "", attrs |-> <<>>, data |-> data]

\* an attribute with a one-character value, and one without a value
Attr(n, c) == [n |-> n, v |-> PyStr(<<c>>)]

Flag(n) == [n |-> n, v |-> None]

RECURSIVE attr_source(_)
\* the source text of the attributes of a tag: name=value, unquoted
attr_source(attrs) ==
    IF attrs = <<>> THEN <<>>
    ELSE (IF Head(attrs).v = None THEN <<" " \o Head(attrs).n>>
          ELSE <<" " \o Head(attrs).n \o "=">> \o Head(attrs).v.s)
         \o attr_source(Tail(attrs))

\* the source text the tokenizer parsed the event from
SourceText(ev) ==
    CASE ev.kind = "start"    -> <<"<" \o ev.tag>> \o attr_source(ev.attrs) \o <<">">>
      [] ev.kind = "startend" -> <<"<" \o ev.tag>> \o attr_source(ev.attrs) \o <<"/>">>
      [] ev.kind = "end"      -> <<"</" \o ev.tag \o ">">>
      [] OTHER                -> ev.data

\* HTMLParser.updatepos over the text of one event: the position after it
updatepos(pos, text) ==
    LET nl == {i \in DOMAIN text : text[i] = "\n"}
    IN  IF nl = {} THEN <<pos[1], pos[2] + Len(text)>>
        ELSE LET last == CHOOSE i \in nl : \A j \in nl : j <= i
             IN  <<pos[1] + Cardinality(nl), Len(text) - last>>

----------------------------------------------------------------------------
(* Construction and the operations *)

\* no Schema is run during a fill
NoRun == [phase |-> "none"]

\* self.errors as __init__ leaves it (htmlfill.py:88-90)
init_errors(arg) ==
    IF ~truth(arg) THEN <<>>
    ELSE IF arg.t = "str" THEN (None :> arg)
    ELSE arg.d

\* the parser after __init__ (htmlfill.py:79-105) and the first lines of
\* feed (htmlfill.py:108-110)
NewParser ==
    [content |-> <<>>, source_pos |-> <<1, 0>>, in_textarea |-> FALSE,
     in_select |-> None, skip_next |-> FALSE, in_error |-> None,
     skip_error |-> FALSE, used_keys |-> {}, used_errors |-> {},
     text |-> Unset, exc |-> ""]

\* FillingParser(defaults, errors, use_all_keys, auto_error_formatter=...)
\* followed by feed(data), the arguments drawn from the given sets
Construct(Defaults, ErrorArgs, Strict, Auto) ==
    /\ defaults \in Defaults
    /\ errors \in {init_errors(arg) : arg \in ErrorArgs}
    /\ use_all_keys \in Strict
    /\ auto_error_formatter \in Auto
    /\ parser = NewParser
    /\ doc = <<>>
    /\ source = <<>>
    /\ getpos = <<1, 0>>
    /\ pc = "feeding"
    /\ schema = NoRun

\* the tokenizer delivers ev, parsed from the text that follows the
\* previous event
Deliver(ev) ==
    /\ pc = "feeding"
    /\ doc' = Append(doc, ev)
    /\ source' = source \o SourceText(ev)
    /\ getpos' = updatepos(getpos, SourceText(ev))
    /\ UNCHANGED <<defaults, errors, use_all_keys, auto_error_formatter, schema>>

\* the handler returned or raised
Handled(self) ==
    /\ parser' = self
    /\ pc' = IF self.exc # "" THEN "failed" ELSE pc

\* self.lines while ev is handled, as far as write_pos reads it
Lines(ev) == split_lines(source \o SourceText(ev))

HandleStartTag(ev) ==
    /\ ev.kind \in {"start", "startend"}
    /\ Deliver(ev)
    /\ Handled(handle_starttag(parser, ev.tag, ev.attrs, ev.kind = "startend",
                               getpos, Lines(ev)))

HandleEndTag(ev) ==
    /\ ev.kind = "end"
    /\ Deliver(ev)
    /\ Handled(handle_endtag(parser, ev.tag, getpos, Lines(ev)))

HandleMisc(ev) ==
    /\ ev.kind = "misc"
    /\ Deliver(ev)
    /\ Handled(handle_misc(parser, getpos, Lines(ev)))

\* the dict d that self holds, after the keys used were deleted from the
\* dict bound to the very same object instead of a copy of it
after_delete_in_place(d, used) == [k \in DOMAIN d \ used |-> d[k]]

\* the dict d that self holds (self.errors, self.defaults), after close
\* deleted the keys used from the copy it made of d (htmlfill.py:117-120,
\* 129-132)
after_delete_from_copy(d, used) == d

\* close reaches its strict-mode block (htmlfill.py:128-132)
reaches_strict(self, keys) ==
    /\ use_all_keys
    /\ auto_error_formatter # "None" => insert_all(self, keys).exc = ""

Close ==
    /\ pc = "feeding"
    /\ \E keys \in Orders(DOMAIN errors \ parser.used_errors) :
          LET self == close(parser, keys)
          IN  /\ parser' = self
              /\ pc' = IF self.exc # "" THEN "failed" ELSE "closed"
              /\ errors' = after_delete_from_copy(errors, parser.used_errors)
              /\ defaults' = IF reaches_strict(parser, keys)
                             THEN after_delete_from_copy(defaults, parser.used_keys)
                             ELSE defaults
    /\ UNCHANGED <<use_all_keys, auto_error_formatter, doc, source, getpos,
                   schema>>

\* text() (htmlfill.py:401-402)
text == parser.text

\* one step of a fill whose document is made of at most Max of the events
\* Events
Fill(Events, Max) ==
    \/ \E ev \in Events : Len(doc) < Max /\ HandleStartTag(ev)
    \/ \E ev \in Events : Len(doc) < Max /\ HandleEndTag(ev)
    \/ \E ev \in Events : Len(doc) < Max /\ HandleMisc(ev)
    \/ Close

----------------------------------------------------------------------------
(* Documents with directives: passthrough, form:error and form:iferror *)

KeyA == PyStr(<<"a">>)

KeyB == PyStr(<<"b">>)

DirectiveEvents ==
    { Misc(<<"x">>), Misc(<<"y", "\n", "z">>),
      Start("b", <<>>), End("b"),
      Start("input", <<Attr("name", "a")>>),
      StartEnd("form:error", <<Attr("name", "a")>>),
      Start("form:error", <<>>),
      Start("form:error", <<Attr("name", "a"), Attr("format", "escape")>>),
      Start("form:error", <<Attr("name", "b"), Attr("format", "none")>>),
      End("form:error"),
      Start("form:iferror", <<Attr("name", "a")>>),
      Start("form:iferror", <<Attr("name", "b")>>),
      End("form:iferror") }

DirectiveErrors ==
    { None, PyDict(KeyA :> PyStr(<<"e", "&">>)) }

InitDirective == Construct({<<>>}, DirectiveErrors, {FALSE}, {"None"})

\* the longest document with directives, in events
MaxEvents == 4

SpecDirective == InitDirective /\ [][Fill(DirectiveEvents, MaxEvents)]_vars

----------------------------------------------------------------------------
(* What a document says, read from the events alone *)

Last(s) == s[Len(s)]

Front(s) == SubSeq(s, 1, Len(s) - 1)

IsStartOf(ev, tag) == ev.kind \in {"start", "startend"} /\ ev.tag = tag

RecognizedTags ==
    {"input", "textarea", "select", "option", "form:error", "form:iferror"}

\* the document holds no control and no directive tag
PlainDoc == \A i \in DOMAIN doc : doc[i].tag \notin RecognizedTags

RECURSIVE OpenBlocks(_)
\* the form:iferror blocks open after the events d, outermost first: each
\* start tag opens a block, each end tag closes the innermost open one
OpenBlocks(d) ==
    IF d = <<>> THEN <<>>
    ELSE LET ev == Last(d)
             open == OpenBlocks(Front(d))
         IN  IF IsStartOf(ev, "form:iferror")
             THEN Append(open, get_attr(ev.attrs, "name", None))
             ELSE IF ev.kind = "end" /\ ev.tag = "form:iferror" /\ open # <<>>
             THEN Front(open)
             ELSE open

\* errors holds an error for key k
HasError(k) == truth(dict_get(errors, k, None))

\* after the events d the document is inside a form:iferror block whose key
\* has no error
InSuppressedBlock(d) ==
    \E i \in DOMAIN OpenBlocks(d) : ~HasError(OpenBlocks(d)[i])

\* the key of the innermost form:iferror block open after the events d
EnclosingKey(d) ==
    IF OpenBlocks(d) = <<>> THEN None ELSE Last(OpenBlocks(d))

\* this step handles one event of the document
EventStep == doc' # doc

\* the characters of the str chunks of the buffer
Emitted == join_content(parser.content)

----------------------------------------------------------------------------
(* Claims on passthrough and on the directives *)

\* C1 (as claimed): after feed(source) and close() of a document with no
\* control and no directive tag, text() equals source exactly, the source
\* span of the last event included.
C1_PassthroughFidelity ==
    (pc = "closed" /\ PlainDoc) => text = PyStr(source)

\* C2 (as claimed): while the document is inside a form:iferror block whose
\* key has no error, no event adds anything to the buffer, the matching end
\* tag included.
C2_ConditionalSuppression ==
    [][(EventStep /\ InSuppressedBlock(doc))
          => parser'.content = parser.content]_vars

DirectiveAtoms ==
    {"<form:error", "</form:error>", "<form:iferror", "</form:iferror>"}

\* C3 (as claimed): the source text of no form:error or form:iferror tag
\* (start tag, end tag, self-closing form) is ever in the output buffer.
C3_DirectivesNeverEmitted ==
    \A i \in DOMAIN Emitted : Emitted[i] \notin DirectiveAtoms

\* what C6 and the spec say each built-in formatter returns
ClaimedFormat(formatter, error) ==
    CASE formatter = PyStr(<<"none">>)   -> error
      [] formatter = PyStr(<<"escape">>) -> PyStr(html_quote(error))
      [] OTHER                           -> default_formatter(error).v

\* C6 (as claimed): a form:error whose key k is its name attribute, or the
\* enclosing form:iferror's when it has none, appends exactly the named
\* formatter's result for errors[k] when errors holds an error for k and
\* nothing when it holds none, and records k in used_errors in both cases.
C6_ErrorPlacement ==
    [][(EventStep /\ IsStartOf(Last(doc'), "form:error"))
          => LET ev == Last(doc')
                 attr_name == get_attr(ev.attrs, "name", None)
                 k == IF attr_name = None THEN EnclosingKey(doc) ELSE attr_name
                 formatter == py_or(get_attr(ev.attrs, "format", None),
                                    PyStr(<<"default">>))
                 before == write_pos(parser, getpos, Lines(ev)).content
             IN  k # None =>
                   /\ k \in parser'.used_errors
                   /\ parser'.content =
                        IF HasError(k)
                        THEN Append(before, ClaimedFormat(formatter, errors[k]))
                        ELSE before]_vars

----------------------------------------------------------------------------
(* Documents of controls, closed under every configuration of the         *)
(* finalizer: strict mode and the auto formatter                           *)

CloseEvents ==
    { Misc(<<"x">>), End("b"),
      Start("input", <<Attr("name", "a")>>),
      Start("input", <<Attr("name", "b")>>),
      Start("input", <<>>),
      Start("input", <<Attr("type", "file"), Attr("name", "a")>>),
      StartEnd("form:error", <<Attr("name", "a")>>) }

CloseDefaults ==
    { <<>>,
      KeyA :> PyStr(<<"v">>),
      (KeyA :> PyStr(<<"v">>)) @@ (KeyB :> PyStr(<<"w">>)) }

CloseErrors ==
    { None,
      PyStr(<<"e">>),
      PyDict((KeyA :> PyStr(<<"e", "<">>)) @@ (KeyB :> PyStr(<<"f">>))) }

\* the longest document of controls, in events
MaxControls == 3

InitClose ==
    Construct(CloseDefaults, CloseErrors, BOOLEAN, {"None", "default_formatter"})

SpecClose == InitClose /\ [][Fill(CloseEvents, MaxControls)]_vars

\* this step is close()
CloseStep == pc = "feeding" /\ pc' # "feeding" /\ doc' = doc

\* the keys of errors no form:error directive consumed during the pass
Unconsumed == DOMAIN errors \ parser.used_errors

\* the positions of the markers tagged k in a buffer
MarkersOf(content, k) == {i \in DOMAIN content : content[i] = Marker(k)}

\* the first of them
FirstMarkerOf(content, k) ==
    CHOOSE i \in MarkersOf(content, k) : \A j \in MarkersOf(content, k) : i <= j

\* the buffer without the items at the positions drop
Without(content, drop) ==
    LET keep == DOMAIN content \ drop
    IN  [n \in 1..Cardinality(keep) |->
            content[CHOOSE i \in keep : Cardinality({j \in keep : j < i}) = n - 1]]

\* what the auto formatter makes of the error of k
AutoText(k) == call_auto(auto_error_formatter, errors[k]).v

\* C4: at close() with an auto_error_formatter, when every unconsumed error
\* key has a marker, the formatted error of each is inserted immediately
\* before the first marker tagged with it and nothing else changes in the
\* buffer; when some unconsumed key has no marker, close() fails (ValueError)
\* and produces no output.
C4_AutoInsertion ==
    [][(CloseStep /\ auto_error_formatter # "None")
          => IF \A k \in Unconsumed : MarkersOf(parser.content, k) # {}
             THEN LET new == parser'.content
                      at == {FirstMarkerOf(new, k) - 1 : k \in Unconsumed}
                  IN  /\ \A k \in Unconsumed :
                            /\ FirstMarkerOf(new, k) > 1
                            /\ new[FirstMarkerOf(new, k) - 1] = AutoText(k)
                      /\ Cardinality(at) = Cardinality(Unconsumed)
                      /\ Without(new, at) = parser.content
                      /\ pc' = "closed" => parser'.text = PyStr(join_content(new))
             ELSE /\ pc' = "failed"
                  /\ parser'.exc = "ValueError"
                  /\ parser'.text = Unset]_vars

\* C4 witness: a closed fill in which the formatted error of an unconsumed
\* key stands immediately before the first of two markers tagged with it.
C4_Witness ==
    /\ pc = "closed"
    /\ auto_error_formatter # "None"
    /\ \E k \in Unconsumed :
          /\ Cardinality(MarkersOf(parser.content, k)) = 2
          /\ parser.content[FirstMarkerOf(parser.content, k) - 1] = AutoText(k)

\* some key of defaults was never recorded in used_keys
UnusedDefault == DOMAIN defaults \ parser.used_keys # {}

\* some key of errors was neither consumed by a form:error nor auto-inserted
UnplacedError ==
    \E k \in Unconsumed :
        ~(auto_error_formatter # "None" /\ MarkersOf(parser.content, k) # {})

\* C5 (as claimed): with use_all_keys, close() fails iff a default key is
\* unused or an error key is neither consumed nor auto-inserted; without
\* use_all_keys, close() never fails on unused default or error keys.
C5_StrictCompleteness ==
    [][CloseStep
          => IF use_all_keys
             THEN (pc' = "failed") <=> (UnusedDefault \/ UnplacedError)
             ELSE pc' = "closed"]_vars

\* C5 (amended): with use_all_keys, as claimed; without use_all_keys, close()
\* fails iff an auto_error_formatter is configured and some unconsumed error
\* key has no marker in the buffer, so unused default keys never cause a
\* failure and unused error keys do only through the failed auto-insertion.
C5_StrictCompletenessAmended ==
    [][CloseStep
          => IF use_all_keys
             THEN (pc' = "failed") <=> (UnusedDefault \/ UnplacedError)
             ELSE (pc' = "failed")
                     <=> (/\ auto_error_formatter # "None"
                          /\ \E k \in Unconsumed :
                                MarkersOf(parser.content, k) = {})]_vars

\* C5 witness: without use_all_keys, close() has failed on an unconsumed
\* error key that has no marker, while a default key is unused as well.
C5_Witness ==
    /\ pc = "failed"
    /\ ~use_all_keys
    /\ parser.exc = "ValueError"
    /\ UnusedDefault
    /\ \E k \in Unconsumed : MarkersOf(parser.content, k) = {}

----------------------------------------------------------------------------
(* Documents of input controls *)

\* an input of the given type named a, with the extra attributes
Input(type, extra) ==
    Start("input", <<Attr("type", type), Attr("name", "a")>> \o extra)

ValuedInputEvents ==
    { Input(t, x) : t \in {"hidden", "password", "submit", "reset", "button", "TEXT"},
                    x \in {<<>>, <<Attr("value", "b")>>} }
    \cup { Start("input", <<Attr("name", "a")>>),
           StartEnd("input", <<Attr("value", "b"), Attr("name", "a")>>),
           Input("image", <<>>), Input("image", <<Attr("src", "b")>>) }

CheckboxEvents ==
    { Input("checkbox", x \o c) :
        x \in {<<>>, <<Attr("value", "a")>>, <<Attr("value", "0")>>},
        c \in {<<>>, <<Flag("checked")>>} }
    \cup { Input("CHECKBOX", <<Attr("value", "None"), Flag("checked")>>) }

RadioEvents ==
    { Input("radio", x \o c) :
        x \in {<<Attr("value", "a")>>, <<Attr("value", "0")>>},
        c \in {<<>>, <<Flag("checked")>>} }
    \cup { Input("radio", <<Flag("checked")>>),
           Input("RADIO", <<Attr("value", "None"), Flag("checked")>>),
           Start("input", <<Attr("type", "radio"), Attr("name", "b"),
                            Attr("value", "a"), Flag("checked")>>) }

InputEvents ==
    ValuedInputEvents \cup CheckboxEvents \cup RadioEvents
        \cup {Misc(<<"x">>), End("b")}

\* the defaults of field a: none, falsy and truthy scalars, lists and a
\* dual-representation literal
InputDefaults ==
    { <<>> }
    \cup { KeyA :> d :
             d \in { PyStr(<<>>), PyStr(<<"a">>), PyInt(0),
                     PyList(<<>>), PyList(<<PyStr(<<"b">>), PyStr(<<"a">>)>>),
                     htmlliteral(<<"<i>">>, <<"i">>) } }

\* the longest document of inputs, in events
MaxInputs == 2

InitInput == Construct(InputDefaults, {None}, {FALSE}, {"None"})

SpecInput == InitInput /\ [][Fill(InputEvents, MaxInputs)]_vars

----------------------------------------------------------------------------
(* Reading an emitted tag: the str write_tag formatted *)

\* the chunk is a tag written by write_tag (its attributes are quoted)
IsWrittenTag(chunk, tag) ==
    chunk.t = "str" /\ chunk.s # <<>> /\ chunk.s[1] = "<" \o tag

\* where the attribute named n starts in the characters s of a written tag
AttrAt(s, n) == {i \in DOMAIN s : s[i] = " " \o n \o "=\""}

HasEmittedAttr(s, n) == AttrAt(s, n) # {}

\* the quoted value of the first attribute named n of the written tag s
EmittedAttr(s, n) ==
    LET i == CHOOSE k \in AttrAt(s, n) : \A j \in AttrAt(s, n) : k <= j
        close_quote == CHOOSE k \in (i + 1)..Len(s) :
                          s[k] = "\"" /\ \A j \in (i + 1)..(k - 1) : s[j] # "\""
    IN  SubSeq(s, i + 1, close_quote - 1)

\* the type of an input: the type attribute lower-cased, 'text' when absent
TypeOf(ev) ==
    lower_str(py_or(get_attr(ev.attrs, "type", None), PyStr(<<"text">>)).s)

\* this step handled the input ev of one of the types and emitted its tag
InputStep(types) ==
    /\ EventStep
    /\ IsStartOf(Last(doc'), "input")
    /\ TypeOf(Last(doc')) \in types
    /\ parser'.exc = ""

\* the tag the step emitted
EmittedTag == Last(parser'.content).s

----------------------------------------------------------------------------
(* Claims on the input controls *)

\* C7 (as claimed): for text, hidden, password, submit, reset and button the
\* emitted value attribute, and for image the emitted src attribute, is the
\* field's default whenever the key is in defaults, whatever the default's
\* value, else the attribute's value in the source tag, else empty.
C7_DefaultPrecedence ==
    [][InputStep({<<"text">>, <<"hidden">>, <<"password">>, <<"submit">>,
                  <<"reset">>, <<"button">>, <<"image">>})
          => LET ev == Last(doc')
                 k == get_attr(ev.attrs, "name", None)
                 n == IF TypeOf(ev) = <<"image">> THEN "src" ELSE "value"
             IN  /\ HasEmittedAttr(EmittedTag, n)
                 /\ EmittedAttr(EmittedTag, n) =
                      IF k \in DOMAIN defaults THEN html_quote(defaults[k])
                      ELSE html_quote(get_attr(ev.attrs, n, PyStr(<<>>)))]_vars

\* C8: an emitted checkbox carries checked="checked" iff the stringified
\* default of its field (str of defaults.get(name)) equals its value
\* attribute, or it has no value attribute and the default is truthy, or the
\* default is a list holding its value attribute as text; otherwise it
\* carries no checked attribute, whatever the source tag had.
C8_CheckboxRule ==
    [][InputStep({<<"checkbox">>})
          => LET ev == Last(doc')
                 d == dict_get(defaults, get_attr(ev.attrs, "name", None), None)
                 v == get_attr(ev.attrs, "value", None)
                 rule == \/ (v # None /\ v.s = str(d))
                         \/ (v = None /\ truth(d))
                         \/ (d.t = "list" /\ v # None
                             /\ \E i \in DOMAIN d.l : str(d.l[i]) = v.s)
             IN  IF rule
                 THEN /\ HasEmittedAttr(EmittedTag, "checked")
                      /\ EmittedAttr(EmittedTag, "checked") = <<"checked">>
                 ELSE ~HasEmittedAttr(EmittedTag, "checked")]_vars

\* C8 witness: checkboxes were emitted, a source tag had a checked attribute
\* that was removed, and a list default checked a box by membership.
C8_Witness ==
    /\ Len(doc) = 2 /\ Len(parser.content) = 5
    /\ defaults = (KeyA :> PyList(<<PyStr(<<"b">>), PyStr(<<"a">>)>>))
    /\ doc[1] = Input("checkbox", <<Attr("value", "0"), Flag("checked")>>)
    /\ IsWrittenTag(parser.content[3], "input")
    /\ ~HasEmittedAttr(parser.content[3].s, "checked")
    /\ doc[2] = Input("checkbox", <<Attr("value", "a")>>)
    /\ IsWrittenTag(parser.content[5], "input")
    /\ HasEmittedAttr(parser.content[5].s, "checked")

\* documents of radios, with one checkbox sharing the field
RadioDocEvents ==
    RadioEvents
        \cup { Input("checkbox", <<Attr("value", "a")>>), Misc(<<"x">>), End("b") }

\* the longest document of radios, in events
MaxRadios == 3

SpecRadio == InitInput /\ [][Fill(RadioDocEvents, MaxRadios)]_vars

\* the radio tags written into the buffer
RadioTags ==
    {i \in DOMAIN parser.content :
        /\ IsWrittenTag(parser.content[i], "input")
        /\ HasEmittedAttr(parser.content[i].s, "type")
        /\ lower_str(EmittedAttr(parser.content[i].s, "type")) = <<"radio">>}

\* the radio tags, among the tags radios, of the group named k
RadioGroup(radios, k) ==
    {i \in radios :
        /\ HasEmittedAttr(parser.content[i].s, "name")
        /\ EmittedAttr(parser.content[i].s, "name") = html_quote(k)}

----------------------------------------------------------------------------
(* Documents of selects and options *)

Option(attrs) == Start("option", attrs)

SelectEvents ==
    { Start("select", <<Attr("name", "a")>>),
      Start("select", <<Attr("name", "b")>>),
      End("select"),
      Option(<<Attr("value", "a")>>),
      Option(<<Attr("value", "b"), Flag("selected")>>),
      Option(<<Attr("value", "0")>>),
      Option(<<[n |-> "value", v |-> PyStr(<<>>)], Flag("selected")>>),
      Option(<<Flag("selected")>>),
      Misc(<<"x">>) }

SelectDefaults ==
    { <<>>,
      KeyA :> PyStr(<<"a">>),
      KeyA :> PyInt(0),
      (KeyA :> PyStr(<<"b">>)) @@ (KeyB :> PyStr(<<"a">>)) }

\* the longest document of selects and options, in events
MaxOptions == 4

InitSelect == Construct(SelectDefaults, {None}, {FALSE}, {"None"})

SpecSelect == InitSelect /\ [][Fill(SelectEvents, MaxOptions)]_vars

RECURSIVE OpenSelect(_)
\* the field of the select opened most recently in the events d, None when
\* a select end tag was seen since (or no select was opened)
OpenSelect(d) ==
    IF d = <<>> THEN None
    ELSE IF IsStartOf(Last(d), "select") THEN get_attr(Last(d).attrs, "name", None)
    ELSE IF Last(d).kind = "end" /\ Last(d).tag = "select" THEN None
    ELSE OpenSelect(Front(d))

\* this step handled an option and emitted its tag
OptionStep ==
    EventStep /\ IsStartOf(Last(doc'), "option") /\ parser'.exc = ""

\* C10: every emitted option carries selected="selected" iff its value
\* attribute equals the stringified default (str of defaults.get(k, '')) of
\* the field k of the select opened most recently and not reset by a select
\* end tag; an option that does not match carries no selected attribute,
\* whatever the source tag had.
C10_SelectOption ==
    [][OptionStep
          => LET ev == Last(doc')
                 k == OpenSelect(doc)
                 v == get_attr(ev.attrs, "value", None)
                 match == v # None /\ v.s = str(dict_get(defaults, k, PyStr(<<>>)))
             IN  /\ IsWrittenTag(Last(parser'.content), "option")
                 /\ IF match
                    THEN /\ HasEmittedAttr(EmittedTag, "selected")
                         /\ EmittedAttr(EmittedTag, "selected") = <<"selected">>
                    ELSE ~HasEmittedAttr(EmittedTag, "selected")]_vars

\* C10 witness: select a, select b, then two options compared with the
\* default of b: the one selected in the source lost its attribute and the
\* one matching b's default gained it.
C10_Witness ==
    /\ defaults = (KeyA :> PyStr(<<"b">>)) @@ (KeyB :> PyStr(<<"a">>))
    /\ doc = <<Start("select", <<Attr("name", "a")>>),
               Start("select", <<Attr("name", "b")>>),
               Option(<<Attr("value", "b"), Flag("selected")>>),
               Option(<<Attr("value", "a")>>)>>
    /\ pc = "feeding"
    /\ \E i \in DOMAIN parser.content :
          /\ IsWrittenTag(parser.content[i], "option")
          /\ EmittedAttr(parser.content[i].s, "value") = <<"b">>
          /\ ~HasEmittedAttr(parser.content[i].s, "selected")
    /\ IsWrittenTag(Last(parser.content), "option")
    /\ HasEmittedAttr(Last(parser.content).s, "selected")

----------------------------------------------------------------------------
(* Documents of textareas *)

TextareaEvents ==
    { Start("textarea", <<Attr("name", "a")>>),
      Start("textarea", <<Attr("rows", "2"), Attr("name", "b")>>),
      End("textarea"),
      Misc(<<"x">>), Misc(<<"y", "\n", "z">>),
      Start("b", <<>>), End("b"),
      Start("input", <<Attr("name", "b")>>) }

\* the defaults of field a: none, text to escape (with a newline), and a
\* dual-representation literal
TextareaDefaults ==
    { <<>>,
      KeyA :> PyStr(<<"l", "\n", "&", "<">>),
      KeyA :> htmlliteral(<<"<i>">>, <<"i">>),
      (KeyA :> PyInt(0)) @@ (KeyB :> PyStr(<<"w">>)) }

\* the longest document of textareas, in events
MaxBody == 4

InitTextarea == Construct(TextareaDefaults, {None}, {FALSE}, {"None"})

SpecTextarea == InitTextarea /\ [][Fill(TextareaEvents, MaxBody)]_vars

RECURSIVE InTextareaBody(_)
\* after the events d the document is between a textarea start tag and its
\* matching end tag
InTextareaBody(d) ==
    IF d = <<>> THEN FALSE
    ELSE IF Last(d).kind = "end" /\ Last(d).tag = "textarea" THEN FALSE
    ELSE IF IsStartOf(Last(d), "textarea") THEN TRUE
    ELSE InTextareaBody(Front(d))

\* C11 (as claimed): a textarea start tag named k adds the rewritten open
\* tag, then the HTML-escaped default of k (the HTML form of a
\* dual-representation default, nothing when k has no default), then a
\* literal </textarea>; and every event between the start tag and its
\* matching end tag, the end tag included, adds nothing to the buffer.
C11_TextareaReplacement ==
    [][EventStep
          => LET ev == Last(doc')
                 k == get_attr(ev.attrs, "name", None)
                 new == parser'.content
                 n == Len(new)
             IN  IF InTextareaBody(doc)
                 THEN new = parser.content
                 ELSE IsStartOf(ev, "textarea")
                        => /\ n >= Len(parser.content) + 3
                           /\ IsWrittenTag(new[n - 2], "textarea")
                           /\ new[n - 1] = PyStr(html_quote(
                                  dict_get(defaults, k, PyStr(<<>>))))
                           /\ new[n] = PyStr(<<"</textarea>">>)]_vars

----------------------------------------------------------------------------
(* Documents of tags of every kind: rewritten, passed through, self-closing, *)
(* with reserved-prefix attributes, without a name                           *)

MarkupEvents ==
    { Misc(<<"x">>), End("b"), End("textarea"),
      Start("b", <<Attr("form:x", "1")>>),
      StartEnd("br", <<>>),
      Start("input", <<Attr("type", "file"), Attr("name", "a"),
                       Attr("form:field", "a")>>),
      Start("input", <<Attr("name", "a"), Attr("form:field", "a")>>),
      StartEnd("input", <<Attr("name", "a")>>),
      Start("input", <<>>),
      Start("select", <<Attr("name", "a")>>),
      StartEnd("select", <<Attr("name", "a")>>),
      Start("select", <<>>),
      StartEnd("option", <<Attr("value", "a")>>),
      Start("textarea", <<>>),
      StartEnd("textarea", <<Attr("name", "a")>>),
      Start("form:iferror", <<>>),
      Start("form:error", <<>>) }

MarkupDefaults == { <<>>, KeyA :> PyStr(<<"a">>) }

\* the longest document of tags, in events
MaxTags == 3

InitMarkup == Construct(MarkupDefaults, {None}, {FALSE}, {"None"})

SpecMarkup == InitMarkup /\ [][Fill(MarkupEvents, MaxTags)]_vars

\* the text that opens an attribute with a reserved-prefix name, as the
\* source writes it and as write_tag would
FormAttrAtoms ==
    { " form:x=", " form:field=", " form:x=\"", " form:field=\"" }

\* C12 (as claimed): no attribute whose name begins with form: is in the
\* text of any tag in the output buffer, whichever the tag: rewritten
\* controls, input type=file, and tags the engine does not recognise.
C12_ReservedAttributesStripped ==
    \A i \in DOMAIN Emitted : Emitted[i] \notin FormAttrAtoms

\* the written tag is in self-closing form
SelfClosing(chunk) ==
    Len(chunk.s) >= 2 /\ chunk.s[Len(chunk.s) - 1] = " /"

\* the tag a control's start-tag step wrote: the last chunk, or the third
\* from last for a textarea (its value and </textarea> follow)
WrittenTag(ev) ==
    IF ev.tag = "textarea"
    THEN parser'.content[Len(parser'.content) - 2]
    ELSE Last(parser'.content)

\* this step handled the start tag of a control and wrote its tag
ControlStep ==
    /\ EventStep
    /\ Last(doc').kind \in {"start", "startend"}
    /\ Last(doc').tag \in {"input", "textarea", "select", "option"}
    /\ parser'.exc = ""
    /\ Len(parser'.content) >= Len(parser.content) + 2

\* C13 (as claimed): the tag emitted for an input, textarea, select or
\* option is in self-closing form exactly when the source wrote the tag in
\* self-closing form.
C13_SelfClosingPreserved ==
    [][ControlStep
          => (SelfClosing(WrittenTag(Last(doc')))
                 <=> Last(doc').kind = "startend")]_vars

\* the event is a control or directive that has no name attribute where the
\* claim requires one, d being the events before it
MissingName(ev, d) ==
    /\ ev.kind \in {"start", "startend"}
    /\ get_attr(ev.attrs, "name", None) = None
    /\ \/ ev.tag \in {"input", "textarea", "select", "form:iferror"}
       \/ ev.tag = "form:error" /\ OpenBlocks(d) = <<>>

\* C14 (as claimed): an input, textarea or select without a name attribute,
\* a form:iferror without a name attribute, and a form:error without a name
\* attribute outside every form:iferror block each abort the fill at that
\* event.
C14_MissingNameFatal ==
    [][(EventStep /\ MissingName(Last(doc'), doc)) => pc' = "failed"]_vars

----------------------------------------------------------------------------
(* Fills that fail: during feed() and during close() *)

AbortEvents ==
    { Misc(<<"x">>), End("b"), End("textarea"),
      Start("textarea", <<Attr("name", "a")>>),
      Start("form:iferror", <<Attr("name", "a")>>),
      Start("select", <<Attr("name", "a")>>),
      Start("option", <<Attr("value", "a")>>),
      Start("input", <<Attr("type", "bogus"), Attr("name", "a")>>),
      Start("input", <<[n |-> "type", v |-> PyStr(<<>>)], Attr("name", "a")>>),
      Start("input", <<Attr("name", "a")>>),
      Start("input", <<Attr("type", "TEXT"), Attr("name", "a")>>),
      Start("form:error", <<>>),
      Start("form:iferror", <<>>) }

AbortDefaults == { <<>>, KeyB :> PyStr(<<"w">>) }

AbortErrors == { None, PyDict(KeyB :> PyStr(<<"f">>)) }

\* the longest document of a failing fill, in events
MaxAbort == 3

InitAbort ==
    Construct(AbortDefaults, AbortErrors, BOOLEAN, {"None", "default_formatter"})

SpecAbort == InitAbort /\ [][Fill(AbortEvents, MaxAbort)]_vars

KnownTypes ==
    { <<"text">>, <<"hidden">>, <<"checkbox">>, <<"radio">>, <<"file">>,
      <<"password">>, <<"image">>, <<"submit">>, <<"reset">>, <<"button">> }

\* the type of an input as C16 words it: the type attribute lower-cased,
\* 'text' when the tag has no type attribute
ClaimedType(ev) ==
    IF first_attr(ev.attrs, "type") = 0 THEN <<"text">>
    ELSE lower_str(get_attr(ev.attrs, "type", None).s)

\* the type of an input as amended: the type attribute lower-cased, 'text'
\* when the tag has no type attribute or an empty one
EffectiveType(ev) ==
    IF first_attr(ev.attrs, "type") = 0
          \/ ~truth(get_attr(ev.attrs, "type", None))
    THEN <<"text">>
    ELSE lower_str(get_attr(ev.attrs, "type", None).s)

\* this step handled an input start tag
AnyInputStep == EventStep /\ IsStartOf(Last(doc'), "input")

\* the fill was aborted at this step and nothing was or will be output
Aborted == pc' = "failed" /\ parser'.exc = "AssertionError" /\ parser'.text = Unset

----------------------------------------------------------------------------
(* The built-in formatters, applied by form:error and by the auto-insertion *)

FormatEvents ==
    { Misc(<<"x">>), End("b"),
      Start("input", <<Attr("name", "a")>>),
      Start("form:error", <<Attr("name", "a")>>),
      Start("form:error", <<Attr("name", "a"), Attr("format", "none")>>),
      Start("form:error", <<Attr("name", "a"), Attr("format", "escape")>>) }

\* the error of field a: plain text, text to escape, a dual-representation
\* literal
FormatErrors ==
    { PyDict(KeyA :> e) :
        e \in { PyStr(<<"e">>), PyStr(<<"<", "&", "\"">>),
                htmlliteral(<<"<i>">>, <<"i">>) } }

\* the longest document of formatted errors, in events
MaxFormat == 3

InitFormat ==
    Construct({<<>>}, FormatErrors, {FALSE},
              {"None", "default_formatter", "none_formatter", "escape_formatter"})

SpecFormat == InitFormat /\ [][Fill(FormatEvents, MaxFormat)]_vars

\* what C17 says the built-in formatter named f (its registry name, or the
\* function configured as auto formatter) returns for an error
ClaimedResult(f, error) ==
    CASE f \in {"none", "none_formatter"}     -> error
      [] f \in {"escape", "escape_formatter"} -> PyStr(html_quote(error))
      [] OTHER -> PyStr(<<"<span class=\"error-message\">">> \o html_quote(error)
                        \o <<"</span><br />", "\n">>)

\* C17 (as claimed): whichever built-in formatter a form:error names or the
\* parser is given as auto formatter, applying it to the error of the field
\* does not fail and yields what the claim says: the escaped error wrapped
\* in the error span (default), the error unchanged (none), the escaped
\* error unwrapped (escape).
C17_BuiltinFormatters ==
    [][/\ (EventStep /\ IsStartOf(Last(doc'), "form:error"))
            => LET f == py_or(get_attr(Last(doc').attrs, "format", None),
                              PyStr(<<"default">>)).s[1]
               IN  /\ parser'.exc = ""
                   /\ Last(parser'.content) = ClaimedResult(f, errors[KeyA])
       /\ (CloseStep /\ auto_error_formatter # "None"
             /\ KeyA \in Unconsumed /\ MarkersOf(parser.content, KeyA) # {})
            => /\ parser'.exc # "TypeError" \/ errors[KeyA].t # "str"
               /\ parser'.exc = ""
                    => parser'.content[FirstMarkerOf(parser'.content, KeyA) - 1]
                          = ClaimedResult(auto_error_formatter, errors[KeyA])
      ]_vars

----------------------------------------------------------------------------
(* schema.Schema._to_python (schema.py:98-180).  Field names, values and   *)
(* exceptions are strings; a dict is a function.  The field validators     *)
(* come from api.py: a validator converts the values it accepts and raises *)
(* Invalid on the others, and may carry an if_missing attribute.           *)

NoDefault == "NoDefault"

Validator(accepts, if_missing) ==
    [accepts |-> accepts, if_missing |-> if_missing, sets_state |-> FALSE]

\* a validator whose calls leave state.key and state.full_dict set to
\* values of its own
StateSetter(validator) == [validator EXCEPT !.sets_state = TRUE]

\* the state object after a call of the validator with it
validator_state(validator, state) ==
    IF validator.sets_state /\ ~state.is_none
    THEN [state EXCEPT !.key = PyStr(<<"f">>), !.full_dict = PyDict(<<>>)]
    ELSE state

\* validator.from_python(value, state) (schema.py:212, 221)
validator_from_python(validator, value) ==
    IF value \in validator.accepts THEN [exc |-> "", v |-> "str:" \o value]
    ELSE [exc |-> "Invalid: " \o value, v |-> ""]

\* validator.to_python(value, state) (schema.py:129, 146)
validator_to_python(validator, value) ==
    IF value \in validator.accepts THEN [exc |-> "", v |-> "py:" \o value]
    ELSE [exc |-> "Invalid: " \o value, v |-> ""]

\* d[k] = v
dict_set(d, k, v) == (k :> v) @@ d

\* list.remove(x) on a list that holds x
list_remove(l, x) ==
    LET i == CHOOSE k \in DOMAIN l : l[k] = x /\ \A j \in 1..(k - 1) : l[j] # x
    IN  SubSeq(l, 1, i - 1) \o SubSeq(l, i + 1, Len(l))

\* an attribute the state object does not have
Absent == [t |-> "absent"]

\* getattr(state, name, None), given the attribute (schema.py:109-110)
getattr(attribute) == IF attribute = Absent THEN None ELSE attribute

\* the state argument: None, or an object whose attributes key and
\* full_dict are Python values or Absent
NoState == [is_none |-> TRUE, key |-> Absent, full_dict |-> Absent]

StateObject(key, full_dict) ==
    [is_none |-> FALSE, key |-> key, full_dict |-> full_dict]

\* a finally clause that restores state.key and leaves state.full_dict as
\* it is
finally_key_only(run) ==
    IF run.state.is_none THEN run
    ELSE [run EXCEPT !.state.key = run.previous_key]

\* the finally clause (schema.py:177-180, 239-242)
finally(run) ==
    IF run.state.is_none THEN run
    ELSE [run EXCEPT !.state.key = run.previous_key,
                     !.state.full_dict = run.previous_full_dict]

\* raise Invalid(msg, value_dict, state, error_dict=...) out of _to_python
raise_invalid(run, has_error_dict, error_dict) ==
    finally([run EXCEPT !.phase = "done", !.outcome = "Invalid",
                        !.has_error_dict = has_error_dict,
                        !.error_dict = error_dict])

\* a Schema instance: its fields, the order of self.fields.keys(), and its
\* attributes (schema.py:38-48)
SchemaObject(fields, keys, allow_extra_fields, if_key_missing) ==
    [fields |-> fields, keys |-> keys,
     allow_extra_fields |-> allow_extra_fields,
     filter_extra_fields |-> FALSE,
     if_key_missing |-> if_key_missing]

\* the start of _to_python (schema.py:98-111); if_empty is NoDefault and
\* pre_validators is the class's [] (schema.py:33).  items is the order of
\* value_dict.items().
to_python_begin(self, value_dict, items, state) ==
    [phase |-> "running", fields |-> self.fields,
     allow_extra_fields |-> self.allow_extra_fields,
     filter_extra_fields |-> self.filter_extra_fields,
     if_key_missing |-> self.if_key_missing,
     value_dict |-> value_dict, items |-> items, pos |-> 0,
     new |-> <<>>, errors |-> <<>>, unused |-> self.keys, upos |-> 0,
     previous_key |-> getattr(state.key),
     previous_full_dict |-> getattr(state.full_dict),
     state |-> IF state.is_none THEN state
               ELSE [state EXCEPT !.full_dict = PyDict(value_dict)],
     method |-> "_to_python", state0 |-> state,
     outcome |-> "", result |-> <<>>,
     has_error_dict |-> FALSE, error_dict |-> <<>>]

\* one iteration of the loop over value_dict.items() that raises as soon
\* as a field's validator does
to_python_item_failfast(run, name) ==
    LET value == run.value_dict[name]
        done == [run EXCEPT !.pos = @ + 1]
    IN  IF \A i \in DOMAIN run.unused : run.unused[i] # name
        THEN IF ~run.allow_extra_fields THEN raise_invalid(run, FALSE, <<>>)
             ELSE IF ~run.filter_extra_fields
             THEN [done EXCEPT !.new = dict_set(@, name, value)]
             ELSE done
        ELSE LET r == [done EXCEPT !.unused = list_remove(@, name),
                                   !.state = validator_state(run.fields[name], @)]
                 res == validator_to_python(run.fields[name], value)
             IN  IF res.exc = "" THEN [r EXCEPT !.new = dict_set(@, name, res.v)]
                 ELSE raise_invalid(r, TRUE, dict_set(run.errors, name, res.exc))

\* one iteration of the loop over value_dict.items() (schema.py:113-131)
to_python_item(run, name) ==
    LET value == run.value_dict[name]
        done == [run EXCEPT !.pos = @ + 1]
    IN  IF \A i \in DOMAIN run.unused : run.unused[i] # name
        THEN IF ~run.allow_extra_fields THEN raise_invalid(run, FALSE, <<>>)
             ELSE IF ~run.filter_extra_fields
             THEN [done EXCEPT !.new = dict_set(@, name, value)]
             ELSE done
        ELSE LET r == [done EXCEPT !.unused = list_remove(@, name),
                                   !.state = validator_state(run.fields[name], @)]
                 res == validator_to_python(run.fields[name], value)
             IN  IF res.exc = "" THEN [r EXCEPT !.new = dict_set(@, name, res.v)]
                 ELSE [r EXCEPT !.errors = dict_set(@, name, res.exc)]

\* one iteration of the loop over unused (schema.py:133-150); a validator
\* without the attribute has if_missing = NoDefault (schema.py:135-138)
to_python_missing(run, name) ==
    LET validator == run.fields[name]
        done == [run EXCEPT !.upos = @ + 1]
        res == validator_to_python(validator, run.if_key_missing)
        called == [done EXCEPT !.state = validator_state(validator, @)]
    IN  IF validator.if_missing = NoDefault
        THEN IF run.if_key_missing = NoDefault
             THEN [done EXCEPT !.errors = dict_set(@, name, "Missing value")]
             ELSE IF res.exc = "" THEN [called EXCEPT !.new = dict_set(@, name, res.v)]
             ELSE [called EXCEPT !.errors = dict_set(@, name, res.exc)]
        ELSE [done EXCEPT !.new = dict_set(@, name, validator.if_missing)]

\* the end of _to_python (schema.py:152-180); chained_validators is the
\* class's [] (schema.py:35)
to_python_end(run) ==
    IF DOMAIN run.errors # {} THEN raise_invalid(run, TRUE, run.errors)
    ELSE finally([run EXCEPT !.phase = "done", !.outcome = "returned",
                             !.result = run.new])

\* the start of _from_python (schema.py:182-196); chained_validators is
\* the class's [] (schema.py:35)
from_python_begin(self, value_dict, items, state) ==
    [to_python_begin(self, value_dict, items, state)
        EXCEPT !.method = "_from_python"]

\* one iteration of the loop over value_dict.items() (schema.py:198-214)
from_python_item(run, name) ==
    LET value == run.value_dict[name]
        done == [run EXCEPT !.pos = @ + 1]
    IN  IF \A i \in DOMAIN run.unused : run.unused[i] # name
        THEN IF ~run.allow_extra_fields THEN raise_invalid(run, FALSE, <<>>)
             ELSE IF ~run.filter_extra_fields
             THEN [done EXCEPT !.new = dict_set(@, name, value)]
             ELSE done
        ELSE LET r == [done EXCEPT !.unused = list_remove(@, name),
                                   !.state = validator_state(run.fields[name], @)]
                 res == validator_from_python(run.fields[name], value)
             IN  IF res.exc = "" THEN [r EXCEPT !.new = dict_set(@, name, res.v)]
                 ELSE [r EXCEPT !.errors = dict_set(@, name, res.exc)]

\* one iteration of the loop over unused (schema.py:218-223)
from_python_missing(run, name) ==
    LET validator == run.fields[name]
        called == [run EXCEPT !.upos = @ + 1,
                              !.state = validator_state(validator, @)]
        res == validator_from_python(validator, "None")
    IN  IF res.exc = "" THEN [called EXCEPT !.new = dict_set(@, name, res.v)]
        ELSE [called EXCEPT !.errors = dict_set(@, name, res.exc)]

\* the end of _from_python (schema.py:225-242); pre_validators is the
\* class's [] (schema.py:33)
from_python_end(run) ==
    IF DOMAIN run.errors # {} THEN raise_invalid(run, TRUE, run.errors)
    ELSE finally([run EXCEPT !.phase = "done", !.outcome = "returned",
                             !.result = run.new])

----------------------------------------------------------------------------
(* Runs of Schema._to_python *)

FieldNames == {"a", "b"}

\* the schemas: a and b accept the value 1; b may have an if_missing
Schemas ==
    { SchemaObject(("a" :> Validator({"1"}, NoDefault))
                      @@ ("b" :> Validator({"1"}, m)),
                   keys, allow, ikm) :
        m \in {NoDefault, "d"}, keys \in Orders(FieldNames),
        allow \in BOOLEAN, ikm \in {NoDefault, "0", "1"} }

\* the input dicts: any keys among a, b and the unexpected x, each with a
\* valid or an invalid value
ValueDicts ==
    UNION { [K -> {"0", "1"}] : K \in SUBSET {"a", "b", "x"} }

States == { NoState, StateObject(PyStr(<<"k">>), PyDict("outer" :> "1")) }

InitSchema ==
    /\ defaults = <<>> /\ errors = <<>> /\ use_all_keys = FALSE
    /\ auto_error_formatter = "None" /\ parser = NewParser
    /\ doc = <<>> /\ source = <<>> /\ getpos = <<1, 0>> /\ pc = "feeding"
    /\ \E self \in Schemas, value_dict \in ValueDicts, state \in States :
          \E items \in Orders(DOMAIN value_dict) :
             schema = to_python_begin(self, value_dict, items, state)

\* no fill goes on during a run of the Schema
NoFill ==
    UNCHANGED <<defaults, errors, use_all_keys, auto_error_formatter, parser,
                doc, source, getpos, pc>>

SchemaItem ==
    /\ schema.phase = "running"
    /\ schema.pos < Len(schema.items)
    /\ schema' = IF schema.method = "_to_python"
                 THEN to_python_item(schema, schema.items[schema.pos + 1])
                 ELSE from_python_item(schema, schema.items[schema.pos + 1])
    /\ NoFill

SchemaMissing ==
    /\ schema.phase = "running"
    /\ schema.pos = Len(schema.items)
    /\ schema.upos < Len(schema.unused)
    /\ schema' = IF schema.method = "_to_python"
                 THEN to_python_missing(schema, schema.unused[schema.upos + 1])
                 ELSE from_python_missing(schema, schema.unused[schema.upos + 1])
    /\ NoFill

SchemaEnd ==
    /\ schema.phase = "running"
    /\ schema.pos = Len(schema.items)
    /\ schema.upos = Len(schema.unused)
    /\ schema' = IF schema.method = "_to_python" THEN to_python_end(schema)
                 ELSE from_python_end(schema)
    /\ NoFill

NextSchema == SchemaItem \/ SchemaMissing \/ SchemaEnd

SpecSchema == InitSchema /\ [][NextSchema]_vars

\* the field fails: its value is in the input and its validator rejects it,
\* or it is missing from the input with no if_missing and no acceptable
\* if_key_missing to stand for it
FieldFails(name) ==
    LET validator == schema.fields[name]
    IN  IF name \in DOMAIN schema.value_dict
        THEN schema.value_dict[name] \notin validator.accepts
        ELSE /\ validator.if_missing = NoDefault
             /\ schema.if_key_missing \notin validator.accepts

FailingFields == {name \in DOMAIN schema.fields : FieldFails(name)}

\* the keys of the input that have no validator
UnexpectedKeys == DOMAIN schema.value_dict \ DOMAIN schema.fields

\* every item of the input and every missing field was processed
AllProcessed ==
    schema.pos = Len(schema.items) /\ schema.upos = Len(schema.unused)

\* the run is over and aggregated the failures: every field was processed,
\* and Invalid was raised, once, iff some field fails, with an error_dict
\* whose keys are exactly the failing fields
Aggregated ==
    /\ AllProcessed
    /\ schema.outcome = "Invalid" <=> FailingFields # {}
    /\ schema.outcome = "Invalid"
          => schema.has_error_dict /\ DOMAIN schema.error_dict = FailingFields

\* C19 (as claimed): for any input dict, keys without a validator and
\* missing keys included, _to_python processes every field before failing
\* and, when a field fails, raises one Invalid whose error_dict has an entry
\* for exactly the failing fields.
C19_ErrorAggregation ==
    schema.phase = "done" => Aggregated

\* C19 (amended): when the input has a key without a validator and
\* allow_extra_fields is off, _to_python raises a plain Invalid (no
\* error_dict) as soon as the iteration reaches such a key, without
\* processing the items that follow or the missing fields; for every other
\* input it processes every field before failing and, when a field fails,
\* raises one Invalid whose error_dict has an entry for exactly the failing
\* fields.
C19_ErrorAggregationAmended ==
    schema.phase = "done"
       => IF UnexpectedKeys # {} /\ ~schema.allow_extra_fields
          THEN /\ schema.outcome = "Invalid"
               /\ ~schema.has_error_dict
               /\ schema.pos < Len(schema.items)
               /\ schema.items[schema.pos + 1] \in UnexpectedKeys
               /\ \A i \in 1..schema.pos : schema.items[i] \notin UnexpectedKeys
               /\ schema.upos = 0
          ELSE Aggregated

\* C19 witness: a run over an input with an unexpected key (allowed), an
\* invalid value for one field and no value for the other ended with one
\* Invalid whose error_dict names both fields.
C19_Witness ==
    /\ schema.phase = "done"
    /\ DOMAIN schema.value_dict = {"a", "x"}
    /\ schema.items[1] = "a"
    /\ FailingFields = {"a", "b"}
    /\ schema.outcome = "Invalid"
    /\ schema.has_error_dict
    /\ DOMAIN schema.error_dict = {"a", "b"}

----------------------------------------------------------------------------
(* Documents that exercise the three suppressions of the passthrough copy *)

SuppressEvents ==
    { Misc(<<"x">>), Misc(<<"y", "\n", "z">>),
      Start("b", <<>>), End("b"),
      Start("input", <<Attr("name", "a")>>),
      Start("input", <<Attr("type", "file"), Attr("name", "a")>>),
      Start("textarea", <<Attr("name", "a")>>), End("textarea"),
      Start("form:iferror", <<Attr("name", "a")>>),
      Start("form:iferror", <<Attr("name", "b")>>),
      End("form:iferror"),
      Start("form:error", <<Attr("name", "b")>>) }

\* the longest document of suppressions, in events
MaxSpans == 4

InitSuppress ==
    Construct({<<>>}, {PyDict(KeyB :> PyStr(<<"e">>))}, {FALSE}, {"None"})

SpecSuppress == InitSuppress /\ [][Fill(SuppressEvents, MaxSpans)]_vars

\* the passthrough copy is suppressed at the event being delivered
Suppressed == parser.in_textarea \/ parser.skip_error \/ parser.skip_next

\* the source span a copy at this event covers: from the start of the event
\* before to the start of this one
PendingSpan == IF doc = <<>> THEN <<>> ELSE SourceText(Last(doc))

\* the event's handler sets skip_next: an intercepted tag whose source text
\* is replaced or dropped
SetsSkip(ev) ==
    \/ /\ ev.kind \in {"start", "startend"}
       /\ \/ ev.tag \in {"select", "option", "form:error", "form:iferror"}
          \/ ev.tag = "input" /\ TypeOf(ev) # <<"file">>
    \/ ev.kind = "end" /\ ev.tag \in {"textarea", "form:iferror"}

\* the event's handler writes no text of its own
WritesNothing(ev) ==
    \/ ev.kind \in {"misc", "end"}
    \/ ev.tag \notin RecognizedTags
    \/ ev.tag = "input" /\ TypeOf(ev) = <<"file">>

\* the characters of the chunks this step appended
Appended ==
    join_content(SubSeq(parser'.content, Len(parser.content) + 1,
                        Len(parser'.content)))

\* C20: at every event the passthrough copy is suppressed exactly when
\* in_textarea, skip_error or skip_next holds, and otherwise copies the
\* pending source span; the cursor advances either way.  A skip_next that
\* holds alone was set by the tag just before, whose span is the one
\* suppressed; it is false once honoured unless this event's handler sets it
\* again, so the span of the event that follows is copied normally.
C20_OneShotSuppression ==
    [][EventStep
          => LET ev == Last(doc')
                 alone == parser.skip_next /\ ~parser.in_textarea
                              /\ ~parser.skip_error
             IN  /\ parser'.source_pos = getpos
                 /\ Suppressed /\ WritesNothing(ev)
                       => \A i \in (Len(parser.content) + 1)..Len(parser'.content) :
                             parser'.content[i].t # "str"
                 /\ ~Suppressed
                       => /\ Len(Appended) >= Len(PendingSpan)
                          /\ SubSeq(Appended, 1, Len(PendingSpan)) = PendingSpan
                          /\ WritesNothing(ev) => Appended = PendingSpan
                 /\ alone => SetsSkip(Last(doc))
                 /\ alone => (parser'.skip_next <=> SetsSkip(ev))
                 /\ ~parser.skip_next => (parser'.skip_next <=> SetsSkip(ev))]_vars

\* C20 witness: the skip_next set by an input suppressed the copy of the
\* input's source span at the text that followed, was cleared, and the text
\* was copied at the next tag.
C20_Witness ==
    /\ doc = <<Start("input", <<Attr("name", "a")>>), Misc(<<"x">>),
               Start("b", <<>>)>>
    /\ ~parser.skip_next
    /\ Last(parser.content) = PyStr(<<"x">>)
    /\ \A i \in DOMAIN Emitted : Emitted[i] # " name="

----------------------------------------------------------------------------
(* Documents of options inside and outside selects, named or not *)

OptionEvents ==
    { Start("select", <<Attr("name", "a")>>),
      Start("select", <<>>),
      Start("select", <<[n |-> "name", v |-> PyStr(<<>>)]>>),
      End("select"),
      Option(<<Attr("value", "a")>>),
      Misc(<<"x">>) }

\* the longest document of options, in events
MaxNesting == 4

SpecOption == InitSelect /\ [][Fill(OptionEvents, MaxNesting)]_vars

RECURSIVE SelectDepth(_)
\* the number of selects whose start tag is in the events d and whose end
\* tag is not
SelectDepth(d) ==
    IF d = <<>> THEN 0
    ELSE IF IsStartOf(Last(d), "select") THEN SelectDepth(Front(d)) + 1
    ELSE IF Last(d).kind = "end" /\ Last(d).tag = "select"
    THEN IF SelectDepth(Front(d)) > 0 THEN SelectDepth(Front(d)) - 1 ELSE 0
    ELSE SelectDepth(Front(d))

\* C21: an option start tag is handled without failure if and only if a
\* select is open at that point (its start tag was met, its end tag was
\* not); an option met when no select is open aborts the fill with an
\* AssertionError.
C21_OptionRequiresSelect ==
    [][EventStep /\ IsStartOf(Last(doc'), "option")
          => /\ parser'.exc = "" <=> SelectDepth(doc) > 0
             /\ SelectDepth(doc) = 0
                   => parser'.exc = "AssertionError" /\ pc' = "failed"]_vars

----------------------------------------------------------------------------
(* Claims on the buffer: markers and the order of its items *)

\* where the tag of the control ev stands in the buffer after its step: the
\* last item, or the third from last for a textarea
TagIndex(ev) ==
    IF ev.tag = "textarea" THEN Len(parser'.content) - 2 ELSE Len(parser'.content)

\* this step handled the start tag of a control and appended its rewritten
\* tag
RewriteStep ==
    /\ EventStep
    /\ Last(doc').kind \in {"start", "startend"}
    /\ Last(doc').tag \in {"input", "textarea", "select", "option"}
    /\ parser'.exc = ""
    /\ TagIndex(Last(doc')) > Len(parser.content)
    /\ IsWrittenTag(parser'.content[TagIndex(Last(doc'))], Last(doc').tag)

\* the key of the field of the control ev: its name, or for an option the
\* field of the select it belongs to
FieldKey(ev) ==
    IF ev.tag = "option" THEN parser.in_select
    ELSE get_attr(ev.attrs, "name", None)

\* C22: each time a control handler (input, textarea, select, option)
\* appends a rewritten tag, the buffer item immediately before the tag is a
\* marker with the key of the control's field, appended by the same handler
\* call.
C22_MarkerPrecedesTag ==
    [][RewriteStep
          => LET i == TagIndex(Last(doc'))
             IN  /\ i - 1 > Len(parser.content)
                 /\ parser'.content[i - 1] = Marker(FieldKey(Last(doc')))]_vars

IsMarker(item) == item.t = "marker"

\* the formatted errors close() may insert: those of the error keys no
\* directive consumed, when an auto_error_formatter is configured
AutoTexts ==
    IF auto_error_formatter = "None" THEN {}
    ELSE { AutoText(k) :
             k \in {u \in Unconsumed :
                      call_auto(auto_error_formatter, errors[u]).exc = ""} }

RECURSIVE InsertedInto(_, _, _)
\* the buffer new is the buffer old with items of the set extra inserted
\* into it, nothing removed, replaced or moved
InsertedInto(old, new, extra) ==
    IF new = <<>> THEN old = <<>>
    ELSE IF old # <<>> /\ Head(old) = Head(new)
    THEN InsertedInto(Tail(old), Tail(new), extra)
    ELSE Head(new) \in extra /\ InsertedInto(old, Tail(new), extra)

\* C23: during feed() the buffer before each event is a prefix of the
\* buffer after it; close() changes the buffer only by inserting formatted
\* error chunks, so the markers written during the pass are all in the
\* buffer, in the same order, when close() completes.
C23_AppendOnlyBuffer ==
    [][/\ EventStep
          => /\ Len(parser'.content) >= Len(parser.content)
             /\ SubSeq(parser'.content, 1, Len(parser.content)) = parser.content
       /\ CloseStep
          => /\ InsertedInto(parser.content, parser'.content, AutoTexts)
             /\ SelectSeq(parser'.content, IsMarker)
                   = SelectSeq(parser.content, IsMarker)]_vars

\* C23 witness: a closed fill of two inputs whose errors were inserted by
\* close(): each formatted error stands before the marker of its input and
\* both markers are still in the buffer, in the order they were written.
C23_Witness ==
    /\ pc = "closed"
    /\ auto_error_formatter = "default_formatter"
    /\ doc = <<Start("input", <<Attr("name", "a")>>),
               Start("input", <<Attr("name", "b")>>)>>
    /\ DOMAIN errors = {KeyA, KeyB}
    /\ SelectSeq(parser.content, IsMarker) = <<Marker(KeyA), Marker(KeyB)>>
    /\ \E i, j \in DOMAIN parser.content :
          /\ i < j
          /\ parser.content[i] = default_formatter(errors[KeyA]).v
          /\ parser.content[i + 1] = Marker(KeyA)
          /\ parser.content[j] = default_formatter(errors[KeyB]).v
          /\ parser.content[j + 1] = Marker(KeyB)

----------------------------------------------------------------------------
(* merge_dicts, merge_values, merge_lists (schema.py:298-334), on error    *)
(* results: strings, lists and tuples, dicts keyed by field names, None.   *)
(* A call that raises has the value TypeError.                             *)

RECURSIVE merge_dicts(_, _)
RECURSIVE merge_values(_, _)
RECURSIVE merge_lists(_, _)

PyTuple(l) == [t |-> "tuple", l |-> l]

\* the TypeError of tuple + list (schema.py:321, 323)
TypeError == [t |-> "TypeError"]

\* the item of the result for a pair of zip(l1, l2) (schema.py:326-332)
merge_items(l1item, l2item) ==
    IF l1item = None THEN l2item
    ELSE IF l2item = None THEN l1item
    ELSE merge_values(l1item, l2item)

\* merge_lists that zips the two lists as they are, without padding the
\* shorter one
merge_lists_unpadded(l1, l2) ==
    LET n == IF Len(l1.l) < Len(l2.l) THEN Len(l1.l) ELSE Len(l2.l)
        result == [i \in 1..n |-> merge_items(l1.l[i], l2.l[i])]
    IN  IF \E i \in 1..n : result[i] = TypeError THEN TypeError
        ELSE PyList(result)

\* merge_lists (schema.py:319-334); the shorter argument is padded by
\* adding a list to it, which raises when it is a tuple
merge_lists(l1, l2) ==
    LET n1 == Len(l1.l)
        n2 == Len(l2.l)
        p1 == IF n1 < n2 THEN l1.l \o [i \in 1..(n2 - n1) |-> None] ELSE l1.l
        p2 == IF n2 < n1 THEN l2.l \o [i \in 1..(n1 - n2) |-> None] ELSE l2.l
        result == [i \in DOMAIN p1 |-> merge_items(p1[i], p2[i])]
    IN  IF (n1 < n2 /\ l1.t = "tuple") \/ (n2 < n1 /\ l2.t = "tuple")
        THEN TypeError
        ELSE IF \E i \in DOMAIN result : result[i] = TypeError THEN TypeError
        ELSE PyList(result)

\* merge_values (schema.py:306-317)
merge_values(v1, v2) ==
    IF v1.t = "str" /\ v2.t = "str" THEN PyStr(v1.s \o <<"\n">> \o v2.s)
    ELSE IF v1.t \in {"list", "tuple"} /\ v2.t \in {"list", "tuple"}
    THEN merge_lists(v1, v2)
    ELSE IF v1.t = "dict" /\ v2.t = "dict" THEN merge_dicts(v1, v2)
    ELSE v1

\* one iteration of the loop of merge_dicts over the keys of d2
\* (schema.py:299-303), on the dict d1 as it is by then
merge_key(d1, d2, key) ==
    IF key \in DOMAIN d1.d
    THEN LET v == merge_values(d1.d[key], d2.d[key])
         IN  IF v = TypeError THEN TypeError
             ELSE PyDict(dict_set(d1.d, key, v))
    ELSE PyDict(dict_set(d1.d, key, d2.d[key]))

RECURSIVE merge_keys(_, _, _)
\* the loop of merge_dicts over the keys of d2 in the order keys
merge_keys(d1, d2, keys) ==
    IF keys = <<>> \/ d1 = TypeError THEN d1
    ELSE merge_keys(merge_key(d1, d2, Head(keys)), d2, Tail(keys))

\* merge_dicts (schema.py:298-304) as a value, for the nested calls; the
\* order in which d2 yields its keys is one of them
merge_dicts(d1, d2) ==
    merge_keys(d1, d2, CHOOSE keys \in Orders(DOMAIN d2.d) : TRUE)

\* a call merge_dicts(d1, d2) at its start; keys is the order in which d2
\* yields its keys
merge_begin(d1, d2, keys) ==
    [phase |-> "merging", arg1 |-> d1, arg2 |-> d2, keys |-> keys, pos |-> 0,
     d1 |-> d1, outcome |-> "", result |-> None]

----------------------------------------------------------------------------
(* Calls of merge_dicts *)

ErrorValues ==
    { PyStr(<<"e">>), PyStr(<<"f">>), None,
      PyList(<<PyStr(<<"e">>)>>),
      PyList(<<None, PyStr(<<"f">>)>>),
      PyList(<<PyList(<<PyStr(<<"f">>)>>), None, PyStr(<<"e">>)>>),
      PyTuple(<<PyStr(<<"e">>)>>),
      PyTuple(<<PyStr(<<"f">>), PyStr(<<"e">>)>>),
      PyDict("x" :> PyStr(<<"e">>)),
      PyDict(("x" :> PyStr(<<"f">>)) @@ ("y" :> PyList(<<PyStr(<<"e">>)>>))),
      PyDict("y" :> PyList(<<None, PyStr(<<"f">>)>>)) }

ErrorDicts == { PyDict(d) : d \in UNION { [K -> ErrorValues] : K \in SUBSET FieldNames } }

InitMerge ==
    /\ defaults = <<>> /\ errors = <<>> /\ use_all_keys = FALSE
    /\ auto_error_formatter = "None" /\ parser = NewParser
    /\ doc = <<>> /\ source = <<>> /\ getpos = <<1, 0>> /\ pc = "feeding"
    /\ \E d1 \in ErrorDicts, d2 \in ErrorDicts :
          \E keys \in Orders(DOMAIN d2.d) : schema = merge_begin(d1, d2, keys)

\* one iteration of the loop (schema.py:299-303)
MergeKey ==
    /\ schema.phase = "merging"
    /\ schema.pos < Len(schema.keys)
    /\ LET d == merge_key(schema.d1, schema.arg2, schema.keys[schema.pos + 1])
       IN  schema' = IF d = TypeError
                     THEN [schema EXCEPT !.phase = "merged",
                                         !.outcome = "TypeError"]
                     ELSE [schema EXCEPT !.d1 = d, !.pos = @ + 1]
    /\ NoFill

\* return d1 (schema.py:304)
MergeReturn ==
    /\ schema.phase = "merging"
    /\ schema.pos = Len(schema.keys)
    /\ schema' = [schema EXCEPT !.phase = "merged", !.outcome = "returned",
                                !.result = schema.d1]
    /\ NoFill

SpecMerge == InitMerge /\ [][MergeKey \/ MergeReturn]_vars

\* the item at position i of the list l, None when l is shorter
ItemOr(l, i) == IF i \in DOMAIN l THEN l[i] ELSE None

RECURSIVE Conforms(_, _, _)
\* r is what the merge rule gives for v1 and v2: two strings, two lists or
\* two mappings; the rule says nothing on other pairs
Conforms(v1, v2, r) ==
    IF v1.t = "str" /\ v2.t = "str"
    THEN r = PyStr(v1.s \o <<"\n">> \o v2.s)
    ELSE IF v1.t = "list" /\ v2.t = "list"
    THEN /\ r.t = "list"
         /\ Len(r.l) = IF Len(v1.l) > Len(v2.l) THEN Len(v1.l) ELSE Len(v2.l)
         /\ \A i \in DOMAIN r.l :
               IF ItemOr(v1.l, i) = None THEN r.l[i] = ItemOr(v2.l, i)
               ELSE IF ItemOr(v2.l, i) = None THEN r.l[i] = v1.l[i]
               ELSE Conforms(v1.l[i], v2.l[i], r.l[i])
    ELSE IF v1.t = "dict" /\ v2.t = "dict"
    THEN /\ r.t = "dict"
         /\ DOMAIN r.d = DOMAIN v1.d \cup DOMAIN v2.d
         /\ \A k \in DOMAIN v1.d \ DOMAIN v2.d : r.d[k] = v1.d[k]
         /\ \A k \in DOMAIN v2.d \ DOMAIN v1.d : r.d[k] = v2.d[k]
         /\ \A k \in DOMAIN v1.d \cap DOMAIN v2.d :
               Conforms(v1.d[k], v2.d[k], r.d[k])
    ELSE TRUE

RECURSIVE HasTuple(_)
\* a tuple occurs in the value v
HasTuple(v) ==
    CASE v.t = "tuple" -> TRUE
      [] v.t = "list"  -> \E i \in DOMAIN v.l : HasTuple(v.l[i])
      [] v.t = "dict"  -> \E k \in DOMAIN v.d : HasTuple(v.d[k])
      [] OTHER         -> FALSE

\* C24: merge_dicts(d1, d2) returns a mapping whose keys are the union of
\* the keys of d1 and d2; a key in only one of them keeps its value; for a
\* key in both, two strings give the first, a newline, then the second, two
\* lists give a list as long as the longer one merged position by position
\* (a missing or None item yields the other item), and two mappings are
\* merged by key recursively.  On strings, lists, mappings and None the
\* call always returns.
C24_ErrorMergeRule ==
    schema.phase = "merged"
       => /\ schema.outcome = "returned"
             => Conforms(schema.arg1, schema.arg2, schema.result)
          /\ ~HasTuple(schema.arg1) /\ ~HasTuple(schema.arg2)
             => schema.outcome = "returned"

\* C24 witness: a returned merge of two dicts that share a key with two
\* strings and a key with two lists of different lengths, the first item of
\* the longer one being None.
C24_Witness ==
    /\ schema.phase = "merged"
    /\ schema.outcome = "returned"
    /\ schema.arg1 = PyDict(("a" :> PyStr(<<"e">>))
                              @@ ("b" :> PyList(<<PyStr(<<"e">>)>>)))
    /\ schema.arg2 = PyDict(("a" :> PyStr(<<"f">>))
                              @@ ("b" :> PyList(<<None, PyStr(<<"f">>)>>)))
    /\ schema.result = PyDict(("a" :> PyStr(<<"e", "\n", "f">>))
                                @@ ("b" :> PyList(<<PyStr(<<"e">>), PyStr(<<"f">>)>>)))

----------------------------------------------------------------------------
(* Runs of Schema._to_python and Schema._from_python with a state object   *)
(* and validators that write to it                                         *)

\* the schemas: each of a and b may write to the state; b may accept None
\* and may have an if_missing
StateSchemas ==
    { SchemaObject(("a" :> IF sa THEN StateSetter(Validator({"1"}, NoDefault))
                           ELSE Validator({"1"}, NoDefault))
                      @@ ("b" :> IF sb THEN StateSetter(Validator({"1", "None"}, m))
                                 ELSE Validator({"1"}, m)),
                   <<"a", "b">>, allow, ikm) :
        sa \in BOOLEAN, sb \in BOOLEAN, m \in {NoDefault, "d"},
        allow \in BOOLEAN, ikm \in {NoDefault, "1"} }

\* the caller's state: None, an object with both attributes, one with key
\* None, one with neither attribute
CallerStates ==
    States \cup { StateObject(None, PyDict("outer" :> "1")),
                  StateObject(Absent, Absent) }

InitState ==
    /\ defaults = <<>> /\ errors = <<>> /\ use_all_keys = FALSE
    /\ auto_error_formatter = "None" /\ parser = NewParser
    /\ doc = <<>> /\ source = <<>> /\ getpos = <<1, 0>> /\ pc = "feeding"
    /\ \E self \in StateSchemas, value_dict \in ValueDicts, state \in CallerStates :
          \E items \in Orders(DOMAIN value_dict) :
             \/ schema = to_python_begin(self, value_dict, items, state)
             \/ schema = from_python_begin(self, value_dict, items, state)

SpecState == InitState /\ [][NextSchema]_vars

\* C25: for a state object that is not None, when Schema._to_python or
\* Schema._from_python has returned or raised Invalid, state.key and
\* state.full_dict hold the values they held (None for an attribute the
\* object did not have) when the call began, whatever the field validators
\* wrote to them during the call.
C25_StateRestored ==
    (schema.phase = "done" /\ ~schema.state0.is_none)
       => /\ schema.state.key = getattr(schema.state0.key)
          /\ schema.state.full_dict = getattr(schema.state0.full_dict)

\* C25 witness: a call of _from_python that raised Invalid with its error
\* dict after both loops, in which the validator of a wrote to the state,
\* and the state holds the caller's key and full_dict again.
C25_Witness ==
    /\ schema.phase = "done"
    /\ schema.method = "_from_python"
    /\ schema.outcome = "Invalid" /\ schema.has_error_dict
    /\ schema.fields["a"].sets_state /\ "a" \in DOMAIN schema.value_dict
    /\ schema.state0 = StateObject(PyStr(<<"k">>), PyDict("outer" :> "1"))
    /\ schema.state = schema.state0

====
